---- MODULE Spec2Model ----
(***************************************************************************)
(* State-machine model of the Banhammer engine of borealis-banhammer       *)
(* (src/src/banhammer.rs): the identity registry with its association      *)
(* lists, the threshold policy check_error_ban, the ban transition of      *)
(* read_input and the decay clock tick.                                    *)
(*                                                                         *)
(* The counters are u32 in the source.  Every counter and every product    *)
(* base threshold * token multiplier of this model stays far below 2^32,   *)
(* so the additions and multiplications are written without a modulus.     *)
(***************************************************************************)
EXTENDS Integers, Sequences, FiniteSets, TLC

\* ------------------------------------------------------------------ bounds

\* Longest revert list an event may still extend (Vec<String> is unbounded).
MaxRevert == 2
\* Largest elapsed time the clock reaches.
MaxTime == 3
\* Number of events read_input is fed.
MaxEvents == 3
\* Number of events read_input is fed over the wide identity universe.
MaxWideEvents == 2
\* Number of events the incorrect-nonce scenario feeds.
MaxScenarioEvents == 7

\* ------------------------------------------------------------------ inputs

Clients == {"c1"}
Froms == {"a1"}
Tokens == {"t1"}
\* The wide identity universe: two clients and two senders.
WideClients == {"c1", "c2"}
WideFroms == {"a1", "a2"}
\* Option<Token>::None
NoToken == "none"
MaybeTokens == Tokens \cup {NoToken}

Messages == {"m1"}
\* Option<TransactionError>: None, ErrIncorrectNonce, MaxGas, Revert(msg), Relayer(_)
NoError == [kind |-> "None"]
ErrIncorrectNonce == [kind |-> "ErrIncorrectNonce"]
ErrMaxGas == [kind |-> "MaxGas"]
ErrRevert(msg) == [kind |-> "Revert", msg |-> msg]
ErrRelayer == [kind |-> "Relayer"]
MaybeErrors == {NoError, ErrIncorrectNonce, ErrMaxGas, ErrRelayer} \cup {ErrRevert(m) : m \in Messages}

\* RelayerInput, the fields read_input reads.
Inputs == [client : Clients, from : Froms, token : MaybeTokens, error : MaybeErrors]
WideInputs == [client : WideClients, from : WideFroms, token : MaybeTokens, error : MaybeErrors]

\* Config, the values Banhammer::new is given.
NonceThresholds == {0, 1}
MaxGasThresholds == {0, 2}
RevertThresholds == {0, 1}
Multipliers == {2}
Timeframes == {1}
Configs == [timeframe : Timeframes, incorrect_nonce_threshold : NonceThresholds, max_gas_threshold : MaxGasThresholds, revert_threshold : RevertThresholds, token_multiplier : Multipliers]

\* ------------------------------------------------------------------- state

\* hist is a history variable: it records what the specification that tracks it
\* has observed so far and is never read by an action of the program.
VARIABLES next_check, user_clients, user_froms, user_tokens, ban_list, config, elapsed, nevents, panicked, last, hist

vars == <<next_check, user_clients, user_froms, user_tokens, ban_list, config, elapsed, nevents, panicked, last, hist>>

\* BanProgress::default()
DefaultBanProgress == [incorrect_nonce |-> 0, max_gas |-> 0, revert |-> <<>>, excessive_gas |-> 0]
\* Option<BanKind>::None
NotBanned == [kind |-> "None"]
DefaultUserClient == [tokens |-> <<>>, froms |-> <<>>, ban_progress |-> DefaultBanProgress, banned |-> NotBanned]
DefaultUserFrom == [clients |-> <<>>, tokens |-> <<>>, ban_progress |-> DefaultBanProgress, banned |-> NotBanned]
DefaultUserToken == [clients |-> <<>>, froms |-> <<>>, ban_progress |-> DefaultBanProgress, banned |-> NotBanned]
\* HashMap::default()
EmptyMap == [k \in {} |-> NotBanned]
DefaultBanList == [clients |-> EmptyMap, tokens |-> EmptyMap, froms |-> EmptyMap]

\* ----------------------------------------------------------------- helpers

\* Mutant of PushIfAbsent: the push without the contains test.
PushAlways(s, x) == Append(s, x)

\* Vec::contains
Contains(s, x) == \E i \in 1..Len(s) : s[i] = x
\* if !v.contains(&x) { v.push(x) }
PushIfAbsent(s, x) == IF ~Contains(s, x) THEN Append(s, x) ELSE s
\* HashMap::entry(k).or_insert_with(default)
OrInsert(map, k, default) == IF k \in DOMAIN map THEN map ELSE (k :> default) @@ map
\* HashMap::insert
Insert(map, k, v) == (k :> v) @@ map
\* HashMap::remove
Remove(map, k) == [x \in DOMAIN map \ {k} |-> map[x]]

\* ---------------------------------------------------------- threshold policy

\* Mutant of Threshold: the token multiplier is never applied.
ThresholdBase(base, multiplier, token) == base

\* check_error_ban: the threshold of one violation kind.
Threshold(base, multiplier, token) == IF token # NoToken THEN base * multiplier ELSE base

\* Mutant of check_error_ban: the counter must exceed the threshold.
check_error_ban_strict(ban_progress, cfg, token, maybe_error) ==
  CASE maybe_error.kind = "None" -> [progress |-> ban_progress, ban |-> FALSE]
    [] maybe_error.kind = "ErrIncorrectNonce" ->
         LET threshold == Threshold(cfg.incorrect_nonce_threshold, cfg.token_multiplier, token)
             p == [ban_progress EXCEPT !.incorrect_nonce = @ + 1]
         IN [progress |-> p, ban |-> p.incorrect_nonce > threshold]
    [] maybe_error.kind = "MaxGas" ->
         LET threshold == Threshold(cfg.max_gas_threshold, cfg.token_multiplier, token)
             p == [ban_progress EXCEPT !.max_gas = @ + 1]
         IN [progress |-> p, ban |-> p.max_gas > threshold]
    [] maybe_error.kind = "Revert" ->
         LET threshold == Threshold(cfg.revert_threshold, cfg.token_multiplier, token)
             p == [ban_progress EXCEPT !.revert = Append(@, maybe_error.msg)]
         IN [progress |-> p, ban |-> p.max_gas > threshold]
    [] maybe_error.kind = "Relayer" -> [progress |-> ban_progress, ban |-> FALSE]

\* Mutant of check_error_ban: a Revert compares the number of revert messages
\* with the threshold.
check_error_ban_revert_count(ban_progress, cfg, token, maybe_error) ==
  CASE maybe_error.kind = "None" -> [progress |-> ban_progress, ban |-> FALSE]
    [] maybe_error.kind = "ErrIncorrectNonce" ->
         LET threshold == Threshold(cfg.incorrect_nonce_threshold, cfg.token_multiplier, token)
             p == [ban_progress EXCEPT !.incorrect_nonce = @ + 1]
         IN [progress |-> p, ban |-> p.incorrect_nonce >= threshold]
    [] maybe_error.kind = "MaxGas" ->
         LET threshold == Threshold(cfg.max_gas_threshold, cfg.token_multiplier, token)
             p == [ban_progress EXCEPT !.max_gas = @ + 1]
         IN [progress |-> p, ban |-> p.max_gas >= threshold]
    [] maybe_error.kind = "Revert" ->
         LET threshold == Threshold(cfg.revert_threshold, cfg.token_multiplier, token)
             p == [ban_progress EXCEPT !.revert = Append(@, maybe_error.msg)]
         IN [progress |-> p, ban |-> Len(p.revert) >= threshold]
    [] maybe_error.kind = "Relayer" -> [progress |-> ban_progress, ban |-> FALSE]

\* Mutant of check_error_ban: a Relayer error is counted as a MaxGas violation.
check_error_ban_relayer(ban_progress, cfg, token, maybe_error) ==
  CASE maybe_error.kind = "None" -> [progress |-> ban_progress, ban |-> FALSE]
    [] maybe_error.kind = "ErrIncorrectNonce" ->
         LET threshold == Threshold(cfg.incorrect_nonce_threshold, cfg.token_multiplier, token)
             p == [ban_progress EXCEPT !.incorrect_nonce = @ + 1]
         IN [progress |-> p, ban |-> p.incorrect_nonce >= threshold]
    [] maybe_error.kind \in {"MaxGas", "Relayer"} ->
         LET threshold == Threshold(cfg.max_gas_threshold, cfg.token_multiplier, token)
             p == [ban_progress EXCEPT !.max_gas = @ + 1]
         IN [progress |-> p, ban |-> p.max_gas >= threshold]
    [] maybe_error.kind = "Revert" ->
         LET threshold == Threshold(cfg.revert_threshold, cfg.token_multiplier, token)
             p == [ban_progress EXCEPT !.revert = Append(@, maybe_error.msg)]
         IN [progress |-> p, ban |-> p.max_gas >= threshold]

\* Mutant of check_error_ban: an event without an error is judged against a
\* threshold of zero instead of returning early.
check_error_ban_no_early_return(ban_progress, cfg, token, maybe_error) ==
  CASE maybe_error.kind = "None" -> [progress |-> ban_progress, ban |-> TRUE]
    [] maybe_error.kind = "ErrIncorrectNonce" ->
         LET threshold == Threshold(cfg.incorrect_nonce_threshold, cfg.token_multiplier, token)
             p == [ban_progress EXCEPT !.incorrect_nonce = @ + 1]
         IN [progress |-> p, ban |-> p.incorrect_nonce >= threshold]
    [] maybe_error.kind = "MaxGas" ->
         LET threshold == Threshold(cfg.max_gas_threshold, cfg.token_multiplier, token)
             p == [ban_progress EXCEPT !.max_gas = @ + 1]
         IN [progress |-> p, ban |-> p.max_gas >= threshold]
    [] maybe_error.kind = "Revert" ->
         LET threshold == Threshold(cfg.revert_threshold, cfg.token_multiplier, token)
             p == [ban_progress EXCEPT !.revert = Append(@, maybe_error.msg)]
         IN [progress |-> p, ban |-> p.max_gas >= threshold]
    [] maybe_error.kind = "Relayer" -> [progress |-> ban_progress, ban |-> FALSE]

\* check_error_ban: the progress after the call and the returned bool.
check_error_ban(ban_progress, cfg, token, maybe_error) ==
  CASE maybe_error.kind = "None" -> [progress |-> ban_progress, ban |-> FALSE]
    [] maybe_error.kind = "ErrIncorrectNonce" ->
         LET threshold == Threshold(cfg.incorrect_nonce_threshold, cfg.token_multiplier, token)
             p == [ban_progress EXCEPT !.incorrect_nonce = @ + 1]
         IN [progress |-> p, ban |-> p.incorrect_nonce >= threshold]
    [] maybe_error.kind = "MaxGas" ->
         LET threshold == Threshold(cfg.max_gas_threshold, cfg.token_multiplier, token)
             p == [ban_progress EXCEPT !.max_gas = @ + 1]
         IN [progress |-> p, ban |-> p.max_gas >= threshold]
    [] maybe_error.kind = "Revert" ->
         LET threshold == Threshold(cfg.revert_threshold, cfg.token_multiplier, token)
             p == [ban_progress EXCEPT !.revert = Append(@, maybe_error.msg)]
         IN [progress |-> p, ban |-> p.max_gas >= threshold]
    [] maybe_error.kind = "Relayer" -> [progress |-> ban_progress, ban |-> FALSE]

\* ------------------------------------------------------------- associations

associate_with_user_client(map, client, from, maybe_token) ==
  LET m == OrInsert(map, client, DefaultUserClient)
      u1 == [m[client] EXCEPT !.froms = PushIfAbsent(@, from)]
      u2 == IF maybe_token # NoToken THEN [u1 EXCEPT !.tokens = PushIfAbsent(@, maybe_token)] ELSE u1
  IN [m EXCEPT ![client] = u2]

\* Mutant of associate_with_user_from: the client is not pushed.
associate_with_user_from_without_client(map, from, client, maybe_token) ==
  LET m == OrInsert(map, from, DefaultUserFrom)
      u1 == m[from]
      u2 == IF maybe_token # NoToken THEN [u1 EXCEPT !.tokens = PushIfAbsent(@, maybe_token)] ELSE u1
  IN [m EXCEPT ![from] = u2]

associate_with_user_from(map, from, client, maybe_token) ==
  LET m == OrInsert(map, from, DefaultUserFrom)
      u1 == [m[from] EXCEPT !.clients = PushIfAbsent(@, client)]
      u2 == IF maybe_token # NoToken THEN [u1 EXCEPT !.tokens = PushIfAbsent(@, maybe_token)] ELSE u1
  IN [m EXCEPT ![from] = u2]

associate_with_user_token(map, token, client, from) ==
  LET m == OrInsert(map, token, DefaultUserToken)
      u1 == [m[token] EXCEPT !.clients = PushIfAbsent(@, client)]
      u2 == [u1 EXCEPT !.froms = PushIfAbsent(@, from)]
  IN [m EXCEPT ![token] = u2]

\* ------------------------------------------------------------ ban_progression

\* Mutant of AxisEvaluated: the ban list is not consulted.
AxisEvaluatedAlways(banned_map, key) == TRUE

\* One axis of ban_progression: whether the axis is evaluated at all.
AxisEvaluated(banned_map, key) == key \notin DOMAIN banned_map

\* Mutant of PolicyToken: a token the entry is already associated with counts as
\* the event's token.
PolicyTokenAssociated(entry, token) ==
  IF token # NoToken THEN token
  ELSE IF "tokens" \in DOMAIN entry /\ Len(entry.tokens) > 0 THEN entry.tokens[1]
  ELSE NoToken

\* One axis of ban_progression: the token handed to check_error_ban, which is the
\* event's token whatever the entry's association lists hold.
PolicyToken(entry, token) == token

\* One axis of ban_progression: the active table after the call, the returned flag,
\* and whether the `expect` on the active entry failed.
AxisProgression(active, banned_map, key, cfg, token, maybe_error) ==
  IF AxisEvaluated(banned_map, key)
  THEN IF key \in DOMAIN active
       THEN LET r == check_error_ban(active[key].ban_progress, cfg, PolicyToken(active[key], token), maybe_error)
            IN [map |-> [active EXCEPT ![key].ban_progress = r.progress], ban |-> r.ban, missing |-> FALSE]
       ELSE [map |-> active, ban |-> FALSE, missing |-> TRUE]
  ELSE [map |-> active, ban |-> FALSE, missing |-> FALSE]

\* Mutant of BanFlags: the sender and the token are reported banned only together
\* with the client.
BanFlagsCoupled(client, from, token) == <<client, client /\ from, client /\ token>>

\* ban_progression: the returned tuple.
BanFlags(client, from, token) == <<client, from, token>>

\* The move of one banned axis in read_input: remove from the active table, insert
\* into the ban list.  The record is inserted as removed.
BanMove(active, banned_map, key) ==
  [active |-> Remove(active, key), banned |-> Insert(banned_map, key, active[key])]

\* ------------------------------------------------------------------ actions

\* Nothing observed yet: no tick, no reset, no progress of a sender or a token.
NoHistory == [ticks |-> 0, resets |-> 0, first |-> 0, froms |-> EmptyMap, tokens |-> EmptyMap]

\* Banhammer::new
Init ==
  /\ config \in Configs
  /\ next_check = config.timeframe
  /\ user_clients = EmptyMap
  /\ user_froms = EmptyMap
  /\ user_tokens = EmptyMap
  /\ ban_list = DefaultBanList
  /\ elapsed = 0
  /\ nevents = 0
  /\ panicked = FALSE
  /\ last = [op |-> "new"]
  /\ hist = NoHistory

\* Mutant of Expired: the comparison the other way round.
ExpiredReversed(e, deadline) == e < deadline

\* Mutant of ResetClient: the revert list is not cleared.
ResetClientCounters(client) ==
  [client EXCEPT !.ban_progress = [excessive_gas |-> 0, max_gas |-> 0, incorrect_nonce |-> 0, revert |-> @.revert]]

\* Mutant of NextDeadline: the deadline is added to itself.
NextDeadlineDoubled(deadline, timeframe) == deadline + deadline

\* tick: self.next_check += self.config.timeframe
NextDeadline(deadline, timeframe) == deadline + timeframe

\* tick: time.elapsed() > self.next_check
Expired(e, deadline) == e > deadline

\* Mutant of ResetClient: the whole record is replaced by the default one.
ResetClientRecord(client) == DefaultUserClient

\* tick: the reset of one active client.
ResetClient(client) ==
  [client EXCEPT !.ban_progress = [excessive_gas |-> 0, max_gas |-> 0, incorrect_nonce |-> 0, revert |-> <<>>]]

\* Banhammer::tick, called when time.elapsed() is e.
Tick(e) ==
  /\ ~panicked
  /\ elapsed' = e
  /\ IF Expired(e, next_check)
     THEN /\ user_clients' = [c \in DOMAIN user_clients |-> ResetClient(user_clients[c])]
          /\ next_check' = NextDeadline(next_check, config.timeframe)
     ELSE UNCHANGED <<user_clients, next_check>>
  /\ last' = [op |-> "tick", reset |-> Expired(e, next_check)]
  /\ UNCHANGED <<user_froms, user_tokens, ban_list, config, nevents, panicked>>

\* Banhammer::read_input
ReadInput(input) ==
  LET maybe_error == input.error
      token == input.token
      clients1 == associate_with_user_client(user_clients, input.client, input.from, token)
      froms1 == associate_with_user_from(user_froms, input.from, input.client, token)
      tokens1 == IF token # NoToken
                 THEN associate_with_user_token(user_tokens, token, input.client, input.from)
                 ELSE user_tokens
  IN /\ ~panicked
     /\ nevents' = nevents + 1
     /\ maybe_error.kind = "Revert" =>
          /\ Len(clients1[input.client].ban_progress.revert) < MaxRevert
          /\ Len(froms1[input.from].ban_progress.revert) < MaxRevert
          /\ token # NoToken => Len(tokens1[token].ban_progress.revert) < MaxRevert
     \* ban_progression, each axis computed once
     /\ \E pc \in {AxisProgression(clients1, ban_list.clients, input.client, config, token, maybe_error)},
           pf \in {AxisProgression(froms1, ban_list.froms, input.from, config, token, maybe_error)},
           pt \in {IF token # NoToken
                   THEN AxisProgression(tokens1, ban_list.tokens, token, config, token, maybe_error)
                   ELSE [map |-> tokens1, ban |-> FALSE, missing |-> FALSE]} :
         \E is_banned \in {BanFlags(pc.ban, pf.ban, pt.ban)} :
           \* the `expect` calls: the active entry of an evaluated axis, the error
           \* and the active entry of a banned axis, the token of a banned token axis
           LET failed == \/ pc.missing \/ pf.missing \/ pt.missing
                         \/ (is_banned[1] \/ is_banned[2] \/ is_banned[3]) /\ maybe_error.kind = "None"
                         \/ is_banned[1] /\ input.client \notin DOMAIN pc.map
                         \/ is_banned[2] /\ input.from \notin DOMAIN pf.map
                         \/ is_banned[3] /\ (token = NoToken \/ token \notin DOMAIN pt.map)
           IN /\ panicked' = failed
              /\ IF failed
                 THEN UNCHANGED <<user_clients, user_froms, user_tokens, ban_list>>
                 ELSE \E mc \in {IF is_banned[1] THEN BanMove(pc.map, ban_list.clients, input.client)
                                  ELSE [active |-> pc.map, banned |-> ban_list.clients]},
                         mf \in {IF is_banned[2] THEN BanMove(pf.map, ban_list.froms, input.from)
                                  ELSE [active |-> pf.map, banned |-> ban_list.froms]},
                         mt \in {IF is_banned[3] THEN BanMove(pt.map, ban_list.tokens, token)
                                  ELSE [active |-> pt.map, banned |-> ban_list.tokens]} :
                        /\ user_clients' = mc.active
                        /\ user_froms' = mf.active
                        /\ user_tokens' = mt.active
                        /\ ban_list' = [clients |-> mc.banned, tokens |-> mt.banned, froms |-> mf.banned]
              /\ last' = [op |-> "read_input", input |-> input, is_banned |-> is_banned]
     /\ UNCHANGED <<next_check, config, elapsed>>

Next ==
  \/ \E input \in Inputs : nevents < MaxEvents /\ ReadInput(input) /\ UNCHANGED hist
  \/ \E e \in elapsed..MaxTime : Tick(e) /\ UNCHANGED hist

Spec == Init /\ [][Next]_vars

\* ------------------------------------------- the wide identity universe

\* One configuration: a first IncorrectNonce or Revert event bans, a second MaxGas
\* event bans.
WideConfigs == [timeframe : {1}, incorrect_nonce_threshold : {1}, max_gas_threshold : {2}, revert_threshold : {0}, token_multiplier : {1}]

InitWide ==
  /\ config \in WideConfigs
  /\ next_check = config.timeframe
  /\ user_clients = EmptyMap
  /\ user_froms = EmptyMap
  /\ user_tokens = EmptyMap
  /\ ban_list = DefaultBanList
  /\ elapsed = 0
  /\ nevents = 0
  /\ panicked = FALSE
  /\ last = [op |-> "new"]
  /\ hist = NoHistory

\* Events only: the association lists do not depend on the decay clock.
NextWide == \E input \in WideInputs : nevents < MaxWideEvents /\ ReadInput(input) /\ UNCHANGED hist

SpecWide == InitWide /\ [][NextWide]_vars

\* ------------------------------------------- the incorrect-nonce scenario

\* Incorrect-nonce threshold N >= 1 and token multiplier M >= 1.
ScenarioConfigs == [timeframe : {1}, incorrect_nonce_threshold : {1, 2, 3}, max_gas_threshold : {1}, revert_threshold : {1}, token_multiplier : {1, 2}]

InitScenario ==
  /\ config \in ScenarioConfigs
  /\ next_check = config.timeframe
  /\ user_clients = EmptyMap
  /\ user_froms = EmptyMap
  /\ user_tokens = EmptyMap
  /\ ban_list = DefaultBanList
  /\ elapsed = 0
  /\ nevents = 0
  /\ panicked = FALSE
  /\ last = [op |-> "new"]
  /\ hist = NoHistory

\* The token every event of the scenario carries: the first event chooses it, and
\* the token table (active or banned) has an entry exactly when it chose a token.
ScenarioTokens ==
  IF nevents = 0 THEN MaybeTokens
  ELSE IF (DOMAIN user_tokens \cup DOMAIN ban_list.tokens) # {}
       THEN DOMAIN user_tokens \cup DOMAIN ban_list.tokens
       ELSE {NoToken}

\* Only IncorrectNonce events of client c1 and sender a1, all with the same token
\* or all with none, and only ticks that do not reset.
NextScenario ==
  \/ \E token \in ScenarioTokens :
        /\ nevents < MaxScenarioEvents
        /\ ReadInput([client |-> "c1", from |-> "a1", token |-> token, error |-> ErrIncorrectNonce])
        /\ UNCHANGED hist
  \/ \E e \in elapsed..MaxTime :
        /\ ~Expired(e, next_check)
        /\ Tick(e)
        /\ UNCHANGED hist

SpecScenario == InitScenario /\ [][NextScenario]_vars

\* ------------------------------------------------- positive base thresholds

\* Configurations whose base thresholds are all at least 1, with every kind of
\* token multiplier: 0, 1 and more.
PositiveConfigs == [timeframe : {1}, incorrect_nonce_threshold : {2}, max_gas_threshold : {2}, revert_threshold : {1, 2}, token_multiplier : {0, 1, 2}]

InitPositive ==
  /\ config \in PositiveConfigs
  /\ next_check = config.timeframe
  /\ user_clients = EmptyMap
  /\ user_froms = EmptyMap
  /\ user_tokens = EmptyMap
  /\ ban_list = DefaultBanList
  /\ elapsed = 0
  /\ nevents = 0
  /\ panicked = FALSE
  /\ last = [op |-> "new"]
  /\ hist = NoHistory

SpecPositive == InitPositive /\ [][Next]_vars

\* ------------------------------------------------- observed progress

\* The size of a progress record: its counters and the length of its revert list.
Size(progress) ==
  [incorrect_nonce |-> progress.incorrect_nonce, max_gas |-> progress.max_gas, revert |-> Len(progress.revert)]

Max(a, b) == IF a >= b THEN a ELSE b

\* The largest sizes seen so far, per identity, after looking at an active table.
Observe(seen, active) ==
  [k \in DOMAIN seen \cup DOMAIN active |->
     IF k \notin DOMAIN active THEN seen[k]
     ELSE IF k \notin DOMAIN seen THEN Size(active[k].ban_progress)
     ELSE LET now == Size(active[k].ban_progress)
          IN [incorrect_nonce |-> Max(seen[k].incorrect_nonce, now.incorrect_nonce),
              max_gas |-> Max(seen[k].max_gas, now.max_gas),
              revert |-> Max(seen[k].revert, now.revert)]]

\* After every call the history takes in the active sender and token tables.
ObserveProgress ==
  hist' = [hist EXCEPT !.froms = Observe(@, user_froms'), !.tokens = Observe(@, user_tokens')]

NextObserved ==
  \/ \E input \in Inputs : nevents < MaxEvents /\ ReadInput(input) /\ ObserveProgress
  \/ \E e \in elapsed..MaxTime : Tick(e) /\ ObserveProgress

SpecObserved == Init /\ [][NextObserved]_vars

\* ------------------------------------------------- counted ticks

MaxTicks == 3
MaxClockEvents == 1

\* Timeframes of one and of two time units, thresholds that let a client gather
\* progress.
ClockConfigs == [timeframe : {1, 2}, incorrect_nonce_threshold : {2}, max_gas_threshold : {2}, revert_threshold : {1}, token_multiplier : {1}]

InitClock ==
  /\ config \in ClockConfigs
  /\ next_check = config.timeframe
  /\ user_clients = EmptyMap
  /\ user_froms = EmptyMap
  /\ user_tokens = EmptyMap
  /\ ban_list = DefaultBanList
  /\ elapsed = 0
  /\ nevents = 0
  /\ panicked = FALSE
  /\ last = [op |-> "new"]
  /\ hist = NoHistory

\* The history counts the tick calls and those that reset, and keeps the elapsed
\* time of the first tick call.
CountTick ==
  hist' = [hist EXCEPT !.ticks = @ + 1,
                       !.resets = IF last'.reset THEN @ + 1 ELSE @,
                       !.first = IF hist.ticks = 0 THEN elapsed' ELSE @]

NextClock ==
  \/ \E input \in Inputs : nevents < MaxClockEvents /\ ReadInput(input) /\ UNCHANGED hist
  \/ \E e \in elapsed..MaxTime : hist.ticks < MaxTicks /\ Tick(e) /\ CountTick

SpecClock == InitClock /\ [][NextClock]_vars

\* ------------------------------------------------------------------ claims

\* The step is a read_input call; its event is last'.input.
ReadInputStep == nevents' = nevents + 1
\* The step is a tick call; its elapsed time is elapsed'.
TickStep == nevents' = nevents /\ last'.op = "tick"

Bannable(error) == error.kind \in {"ErrIncorrectNonce", "MaxGas", "Revert"}
\* The base threshold the claims name for a violation kind.
BaseThreshold(cfg, error) ==
  CASE error.kind = "ErrIncorrectNonce" -> cfg.incorrect_nonce_threshold
    [] error.kind = "MaxGas" -> cfg.max_gas_threshold
    [] error.kind = "Revert" -> cfg.revert_threshold
\* The counter the claims name for a violation kind.
RelevantCounter(progress, error) ==
  CASE error.kind = "ErrIncorrectNonce" -> progress.incorrect_nonce
    [] error.kind = "MaxGas" -> progress.max_gas
    [] error.kind = "Revert" -> progress.max_gas
\* The effective threshold the claims name for an event.
EffectiveThreshold(cfg, input) ==
  IF input.token # NoToken
  THEN BaseThreshold(cfg, input.error) * cfg.token_multiplier
  ELSE BaseThreshold(cfg, input.error)

\* The record of a key after a step, in whichever table holds it.
RecordOf(active, banned_map, key) == IF key \in DOMAIN banned_map THEN banned_map[key] ELSE active[key]

\* C1: on each axis no identity key is in the active table and in the ban-store
\* table at the same time.
C1_NeverInBothTables ==
  /\ DOMAIN user_clients \cap DOMAIN ban_list.clients = {}
  /\ DOMAIN user_froms \cap DOMAIN ban_list.froms = {}
  /\ DOMAIN user_tokens \cap DOMAIN ban_list.tokens = {}

\* A ban-store table keeps every record it holds, unchanged.
Frozen(banned_map, banned_map2) ==
  \A k \in DOMAIN banned_map : k \in DOMAIN banned_map2 /\ banned_map2[k] = banned_map[k]

\* C2: a record of the ban store is never removed, overwritten or modified by a
\* later read_input or tick call, and an event that references a banned identity
\* does not report it banned again.
C2_BanStoreFrozen ==
  [][ /\ Frozen(ban_list.clients, ban_list'.clients)
      /\ Frozen(ban_list.froms, ban_list'.froms)
      /\ Frozen(ban_list.tokens, ban_list'.tokens)
      /\ ReadInputStep =>
           /\ last'.input.client \in DOMAIN ban_list.clients => ~last'.is_banned[1]
           /\ last'.input.from \in DOMAIN ban_list.froms => ~last'.is_banned[2]
           /\ last'.input.token \in DOMAIN ban_list.tokens => ~last'.is_banned[3] ]_vars

\* An event with a violation that bans at least on a fresh entry referenced a
\* client that an earlier event had banned, and took place without banning it again.
C2_Witness ==
  /\ last.op = "read_input"
  /\ Bannable(last.input.error)
  /\ EffectiveThreshold(config, last.input) <= 1
  /\ last.input.client \in DOMAIN ban_list.clients
  /\ ~last.is_banned[1]

\* One axis of C3: an identity that was not in the ban store is moved by the event
\* exactly when the event's violation is bannable and the relevant counter after
\* the update has reached the effective threshold; otherwise it stays active.
MovedIff(active, banned_map, active2, banned_map2, key, input) ==
  key \notin DOMAIN banned_map =>
    LET moved == key \notin DOMAIN active2 /\ key \in DOMAIN banned_map2
        stayed == key \in DOMAIN active2 /\ key \notin DOMAIN banned_map2
    IN /\ moved \/ stayed
       /\ moved <=> /\ Bannable(input.error)
                    /\ RelevantCounter(RecordOf(active2, banned_map2, key).ban_progress, input.error)
                         >= EffectiveThreshold(config, input)

\* C3: for every read_input event and every axis not already in the ban store,
\* the identity is moved from the active registry to the ban store during the
\* event if and only if the event carries a bannable violation and the relevant
\* counter after the update is >= the effective threshold.
C3_MovedIffThresholdReached ==
  [][ReadInputStep =>
       /\ MovedIff(user_clients, ban_list.clients, user_clients', ban_list'.clients, last'.input.client, last'.input)
       /\ MovedIff(user_froms, ban_list.froms, user_froms', ban_list'.froms, last'.input.from, last'.input)
       /\ last'.input.token # NoToken =>
            MovedIff(user_tokens, ban_list.tokens, user_tokens', ban_list'.tokens, last'.input.token, last'.input) ]_vars

\* A Revert event with a token moved the token to the ban store on its max-gas
\* counter, at a positive effective threshold.
C3_Witness ==
  /\ last.op = "read_input"
  /\ last.input.error.kind = "Revert"
  /\ last.input.token # NoToken
  /\ last.is_banned[3]
  /\ last.input.token \in DOMAIN ban_list.tokens
  /\ last.input.token \notin DOMAIN user_tokens
  /\ EffectiveThreshold(config, last.input) > 0

\* The ban reason of a violation.
BanKindOf(error) ==
  CASE error.kind = "ErrIncorrectNonce" -> [kind |-> "IncorrectNonce"]
    [] error.kind = "MaxGas" -> [kind |-> "MaxGas"]
    [] error.kind = "Revert" -> [kind |-> "Revert", msg |-> error.msg]

\* C4: every record of the ban store carries a ban reason, and the record an
\* event has just banned carries the reason of that event's violation.
C4_BanReasonSet ==
  /\ \A k \in DOMAIN ban_list.clients : ban_list.clients[k].banned.kind # "None"
  /\ \A k \in DOMAIN ban_list.froms : ban_list.froms[k].banned.kind # "None"
  /\ \A k \in DOMAIN ban_list.tokens : ban_list.tokens[k].banned.kind # "None"
  /\ last.op = "read_input" =>
       /\ last.is_banned[1] => ban_list.clients[last.input.client].banned = BanKindOf(last.input.error)
       /\ last.is_banned[2] => ban_list.froms[last.input.from].banned = BanKindOf(last.input.error)
       /\ last.is_banned[3] => ban_list.tokens[last.input.token].banned = BanKindOf(last.input.error)

\* C5 as stated: with a base threshold of zero for a violation kind, no event of
\* that kind moves an identity into the ban store.
C5_ZeroThresholdDisables ==
  [][(ReadInputStep /\ Bannable(last'.input.error) /\ BaseThreshold(config, last'.input.error) = 0) =>
       /\ DOMAIN ban_list'.clients = DOMAIN ban_list.clients
       /\ DOMAIN ban_list'.froms = DOMAIN ban_list.froms
       /\ DOMAIN ban_list'.tokens = DOMAIN ban_list.tokens ]_vars

\* C5 amended: with a base threshold of zero for a violation kind, every event of
\* that kind bans each of its axes that was not banned already, so that all the
\* event's identities are in the ban store after it.
C5_ZeroThresholdBansAtOnce ==
  [][(ReadInputStep /\ Bannable(last'.input.error) /\ BaseThreshold(config, last'.input.error) = 0) =>
       /\ last'.input.client \in DOMAIN ban_list'.clients
       /\ last'.input.from \in DOMAIN ban_list'.froms
       /\ last'.input.token # NoToken => last'.input.token \in DOMAIN ban_list'.tokens
       /\ last'.is_banned[1] <=> last'.input.client \notin DOMAIN ban_list.clients
       /\ last'.is_banned[2] <=> last'.input.from \notin DOMAIN ban_list.froms
       /\ last'.is_banned[3] <=> (last'.input.token # NoToken /\ last'.input.token \notin DOMAIN ban_list.tokens) ]_vars

\* A first Revert event under a revert threshold of zero banned its client, whose
\* counters are all zero.
C5_Witness ==
  /\ last.op = "read_input"
  /\ last.input.error.kind = "Revert"
  /\ config.revert_threshold = 0
  /\ last.is_banned[1]
  /\ ban_list.clients[last.input.client].ban_progress.max_gas = 0
  /\ ban_list.clients[last.input.client].ban_progress.incorrect_nonce = 0

\* One axis of C6: the decision on an evaluated axis compares the relevant counter
\* after the update with a threshold fixed by the event's token field alone.
DecidedBy(active2, banned_map2, key, input, flag, threshold) ==
  flag <=> /\ Bannable(input.error)
           /\ RelevantCounter(RecordOf(active2, banned_map2, key).ban_progress, input.error) >= threshold

\* C6: the effective threshold is base x token_multiplier when the event carries a
\* token and the base threshold when it carries none, on the client and the sender
\* axis whatever tokens the identity's association list already holds, and the
\* token axis always uses base x token_multiplier.
C6_ThresholdByEventToken ==
  [][(ReadInputStep /\ Bannable(last'.input.error)) =>
       LET input == last'.input
           base == BaseThreshold(config, input.error)
           threshold == IF input.token = NoToken THEN base ELSE base * config.token_multiplier
       IN /\ input.client \notin DOMAIN ban_list.clients =>
               DecidedBy(user_clients', ban_list'.clients, input.client, input, last'.is_banned[1], threshold)
          /\ input.from \notin DOMAIN ban_list.froms =>
               DecidedBy(user_froms', ban_list'.froms, input.from, input, last'.is_banned[2], threshold)
          /\ (input.token # NoToken /\ input.token \notin DOMAIN ban_list.tokens) =>
               DecidedBy(user_tokens', ban_list'.tokens, input.token, input, last'.is_banned[3], base * config.token_multiplier) ]_vars

\* An event without a token banned a client whose association list holds a token
\* of an earlier event, at a counter below base x token_multiplier.
C6_Witness ==
  /\ last.op = "read_input"
  /\ last.input.token = NoToken
  /\ Bannable(last.input.error)
  /\ last.is_banned[1]
  /\ Len(ban_list.clients[last.input.client].tokens) > 0
  /\ RelevantCounter(ban_list.clients[last.input.client].ban_progress, last.input.error)
       < BaseThreshold(config, last.input.error) * config.token_multiplier

\* The scenario's events carry a token.
ScenarioTokened == (DOMAIN user_tokens \cup DOMAIN ban_list.tokens) # {}
\* The number of the scenario's event that bans: N without a token, N x M with one.
ScenarioBanEvent ==
  IF ScenarioTokened
  THEN config.incorrect_nonce_threshold * config.token_multiplier
  ELSE config.incorrect_nonce_threshold

\* C7: with incorrect-nonce threshold N >= 1 and token multiplier M >= 1 and no
\* reset, a fresh client that receives only IncorrectNonce events is banned on
\* exactly its N-th event when no event carries a token and on exactly its
\* (N x M)-th when every event carries the same token, the token with it; right
\* after that event the identity is out of the active registry and in the ban store.
C7_BannedOnNthEvent ==
  nevents >= 1 =>
    /\ "c1" \in DOMAIN ban_list.clients <=> nevents >= ScenarioBanEvent
    /\ ScenarioTokened => ("t1" \in DOMAIN ban_list.tokens <=> nevents >= ScenarioBanEvent)
    /\ nevents < ScenarioBanEvent =>
         /\ "c1" \in DOMAIN user_clients
         /\ user_clients["c1"].ban_progress.incorrect_nonce = nevents
         /\ last.op = "read_input" => (~last.is_banned[1] /\ ~last.is_banned[3])
    /\ nevents = ScenarioBanEvent =>
         /\ "c1" \notin DOMAIN user_clients
         /\ ban_list.clients["c1"].ban_progress.incorrect_nonce = nevents
         /\ ScenarioTokened => "t1" \notin DOMAIN user_tokens
         /\ last.op = "read_input" => (last.is_banned[1] /\ (ScenarioTokened <=> last.is_banned[3]))

\* With N = 2 and M = 2 the fourth event with the token has just banned the
\* token and the client.
C7_Witness ==
  /\ config.incorrect_nonce_threshold = 2
  /\ config.token_multiplier = 2
  /\ nevents = 4
  /\ last.op = "read_input"
  /\ last.is_banned[1]
  /\ last.is_banned[3]
  /\ "t1" \in DOMAIN ban_list.tokens
  /\ "c1" \in DOMAIN ban_list.clients

\* C8: a tick made while the elapsed time has not yet reached the next-check
\* deadline changes no progress counter or revert list on any axis, no table
\* membership, and not the deadline.
C8_EarlyTickNoOp ==
  [][(TickStep /\ elapsed' < next_check) =>
       UNCHANGED <<user_clients, user_froms, user_tokens, ban_list, next_check>>]_vars

\* A tick before the deadline took place while a client had progress, and the
\* progress is still there.
C8_Witness ==
  /\ last.op = "tick"
  /\ ~last.reset
  /\ elapsed < next_check
  /\ \E c \in DOMAIN user_clients : user_clients[c].ban_progress # DefaultBanProgress

\* What a reset does: every active client's counters at zero and revert list
\* empty, nothing else of the client table changed, and the deadline one
\* timeframe later.
TickResets ==
  /\ DOMAIN user_clients' = DOMAIN user_clients
  /\ \A c \in DOMAIN user_clients :
       /\ user_clients'[c].ban_progress.incorrect_nonce = 0
       /\ user_clients'[c].ban_progress.max_gas = 0
       /\ user_clients'[c].ban_progress.excessive_gas = 0
       /\ user_clients'[c].ban_progress.revert = <<>>
       /\ user_clients'[c].froms = user_clients[c].froms
       /\ user_clients'[c].tokens = user_clients[c].tokens
       /\ user_clients'[c].banned = user_clients[c].banned
  /\ next_check' = next_check + config.timeframe

\* C9 as stated: a tick made when the elapsed time is at or after the deadline,
\* the deadline itself included, resets the active clients and advances the
\* deadline by one timeframe.
C9_TickAtOrAfterResets ==
  [][(TickStep /\ elapsed' >= next_check) => TickResets]_vars

\* C9 amended: a tick made when the elapsed time is strictly after the deadline
\* resets the active clients and advances the deadline by one timeframe; a tick
\* made exactly at the deadline resets nothing and keeps the deadline.
C9_TickAfterResets ==
  [][TickStep =>
       /\ elapsed' > next_check => TickResets
       /\ elapsed' = next_check => UNCHANGED <<user_clients, next_check>> ]_vars

\* A tick has reset an active client, and the new deadline is one timeframe after
\* the old one, still before the elapsed time.
C9_Witness ==
  /\ last.op = "tick"
  /\ last.reset
  /\ elapsed > next_check
  /\ DOMAIN user_clients # {}

NoDuplicates(s) == \A i, j \in 1..Len(s) : i # j => s[i] # s[j]
ClientListsDistinct(map) == \A k \in DOMAIN map : NoDuplicates(map[k].froms) /\ NoDuplicates(map[k].tokens)
FromListsDistinct(map) == \A k \in DOMAIN map : NoDuplicates(map[k].clients) /\ NoDuplicates(map[k].tokens)
TokenListsDistinct(map) == \A k \in DOMAIN map : NoDuplicates(map[k].clients) /\ NoDuplicates(map[k].froms)

\* C10: every association list of every record, active or banned, on all three
\* axes holds no value twice.
C10_NoDuplicateAssociations ==
  /\ ClientListsDistinct(user_clients)
  /\ ClientListsDistinct(ban_list.clients)
  /\ FromListsDistinct(user_froms)
  /\ FromListsDistinct(ban_list.froms)
  /\ TokenListsDistinct(user_tokens)
  /\ TokenListsDistinct(ban_list.tokens)

\* Two events of two clients with the same sender and the same token: the sender
\* and the token list both clients, and each lists the other once.
C10_Witness ==
  /\ "a1" \in DOMAIN user_froms
  /\ "t1" \in DOMAIN user_tokens
  /\ Len(user_froms["a1"].clients) = 2
  /\ Len(user_tokens["t1"].clients) = 2
  /\ user_froms["a1"].tokens = <<"t1">>
  /\ user_tokens["t1"].froms = <<"a1">>

\* The progress an axis is evaluated on: that of its active entry, or of the
\* fresh entry the event creates.
PreProgress(active, key) ==
  IF key \in DOMAIN active THEN active[key].ban_progress ELSE DefaultBanProgress

\* One axis of a Revert event, when it is evaluated: the message is appended, no
\* counter moves, and the axis is reported banned exactly when its max-gas
\* counter has reached the effective revert threshold.
RevertAxis(active, banned_map, active2, banned_map2, key, flag, input) ==
  key \notin DOMAIN banned_map =>
    LET pre == PreProgress(active, key)
        post == RecordOf(active2, banned_map2, key).ban_progress
    IN /\ post.revert = Append(pre.revert, input.error.msg)
       /\ post.max_gas = pre.max_gas
       /\ post.incorrect_nonce = pre.incorrect_nonce
       /\ flag <=> pre.max_gas >= EffectiveThreshold(config, input)

\* No evaluated axis whose max-gas counter is zero is reported banned.
NoBanWithoutMaxGas(input, flags) ==
  /\ (input.client \notin DOMAIN ban_list.clients /\ PreProgress(user_clients, input.client).max_gas = 0)
       => ~flags[1]
  /\ (input.from \notin DOMAIN ban_list.froms /\ PreProgress(user_froms, input.from).max_gas = 0)
       => ~flags[2]
  /\ (input.token # NoToken /\ input.token \notin DOMAIN ban_list.tokens
        /\ PreProgress(user_tokens, input.token).max_gas = 0)
       => ~flags[3]

RevertAxes(input, flags) ==
  /\ RevertAxis(user_clients, ban_list.clients, user_clients', ban_list'.clients, input.client, flags[1], input)
  /\ RevertAxis(user_froms, ban_list.froms, user_froms', ban_list'.froms, input.from, flags[2], input)
  /\ input.token # NoToken =>
       RevertAxis(user_tokens, ban_list.tokens, user_tokens', ban_list'.tokens, input.token, flags[3], input)

\* C11 as stated: a Revert event appends its message on each evaluated axis and
\* bans the axis exactly when its max-gas counter is at least the revert
\* threshold (times the token multiplier when the event carries a token), and
\* with a revert threshold of at least 1 an axis whose max-gas counter is zero is
\* never banned by a Revert event.
C11_RevertNeverBansWithoutMaxGas ==
  [][ ReadInputStep => (last'.input.error.kind = "Revert" =>
        /\ RevertAxes(last'.input, last'.is_banned)
        /\ config.revert_threshold >= 1 => NoBanWithoutMaxGas(last'.input, last'.is_banned)) ]_vars

\* C11 amended: the same, where the zero-counter guarantee also requires a token
\* multiplier of at least 1.
C11_RevertDecidedByMaxGas ==
  [][ ReadInputStep => (last'.input.error.kind = "Revert" =>
        /\ RevertAxes(last'.input, last'.is_banned)
        /\ (config.revert_threshold >= 1 /\ config.token_multiplier >= 1)
             => NoBanWithoutMaxGas(last'.input, last'.is_banned)) ]_vars

\* A Revert event left the client active with a max-gas counter of zero although
\* its revert messages already number at least the effective threshold.
C11_Witness ==
  /\ last.op = "read_input"
  /\ last.input.error.kind = "Revert"
  /\ config.token_multiplier >= 1
  /\ ~last.is_banned[1]
  /\ last.input.client \in DOMAIN user_clients
  /\ last.input.client \notin DOMAIN ban_list.clients
  /\ user_clients[last.input.client].ban_progress.max_gas = 0
  /\ Len(user_clients[last.input.client].ban_progress.revert) = MaxRevert
  /\ MaxRevert >= EffectiveThreshold(config, last.input)

\* The elements of an association list.
Elems(list) == {list[i] : i \in 1..Len(list)}

\* An association list after a call that references x: the old list, followed
\* by x when x was missing.
Grown(old, new, x) ==
  /\ Elems(new) = Elems(old) \cup {x}
  /\ Len(new) <= Len(old) + 1
  /\ SubSeq(new, 1, Len(old)) = old

\* An active table after an event that moves no progress: every entry keeps its
\* record, except that the entry of the event's key exists afterwards, with
\* default progress when it was missing.
QuietTable(active, active2, key, default) ==
  /\ DOMAIN active2 = DOMAIN active \cup {key}
  /\ \A k \in DOMAIN active : k # key => active2[k] = active[k]
  /\ active2[key].ban_progress = PreProgress(active, key)
  /\ active2[key].banned = default.banned

\* The association lists of the event's entries grow by the identities the
\* event names, and by nothing else.
QuietLists(input) ==
  LET c == OrInsert(user_clients, input.client, DefaultUserClient)[input.client]
      f == OrInsert(user_froms, input.from, DefaultUserFrom)[input.from]
  IN /\ Grown(c.froms, user_clients'[input.client].froms, input.from)
     /\ Grown(f.clients, user_froms'[input.from].clients, input.client)
     /\ IF input.token = NoToken
        THEN /\ user_clients'[input.client].tokens = c.tokens
             /\ user_froms'[input.from].tokens = f.tokens
        ELSE LET t == OrInsert(user_tokens, input.token, DefaultUserToken)[input.token]
             IN /\ Grown(c.tokens, user_clients'[input.client].tokens, input.token)
                /\ Grown(f.tokens, user_froms'[input.from].tokens, input.token)
                /\ Grown(t.clients, user_tokens'[input.token].clients, input.client)
                /\ Grown(t.froms, user_tokens'[input.token].froms, input.from)

\* C12: a read_input event without a violation signal, or with a Relayer error,
\* changes no progress counter and no revert list on any axis and moves no
\* identity into the ban store; it only creates the missing active entries of
\* its identities and adds the missing cross-references to them.
C12_QuietEventOnlyAssociates ==
  [][ ReadInputStep => (last'.input.error.kind \in {"None", "Relayer"} =>
        /\ last'.is_banned = <<FALSE, FALSE, FALSE>>
        /\ ban_list' = ban_list
        /\ QuietTable(user_clients, user_clients', last'.input.client, DefaultUserClient)
        /\ QuietTable(user_froms, user_froms', last'.input.from, DefaultUserFrom)
        /\ IF last'.input.token = NoToken
           THEN user_tokens' = user_tokens
           ELSE QuietTable(user_tokens, user_tokens', last'.input.token, DefaultUserToken)
        /\ QuietLists(last'.input)) ]_vars

\* A Relayer event with a token found a client and a sender with progress (one
\* max-gas violation each) and left both active with that progress; its token
\* has an active entry without progress.
C12_Witness ==
  /\ last.op = "read_input"
  /\ last.input.error.kind = "Relayer"
  /\ last.input.token # NoToken
  /\ last.input.client \in DOMAIN user_clients
  /\ user_clients[last.input.client].ban_progress.max_gas = 1
  /\ last.input.from \in DOMAIN user_froms
  /\ user_froms[last.input.from].ban_progress.max_gas = 1
  /\ last.input.token \in DOMAIN user_tokens
  /\ user_tokens[last.input.token].ban_progress = DefaultBanProgress

\* C13: a tick call, resetting or not, leaves unchanged the active sender table
\* and the active token table, every record of the three ban-store tables, the
\* association lists of every axis and the key set of every table; only the
\* progress of active clients and the next-check deadline can change.
C13_TickFrame ==
  [][ TickStep =>
        /\ user_froms' = user_froms
        /\ user_tokens' = user_tokens
        /\ ban_list' = ban_list
        /\ DOMAIN user_clients' = DOMAIN user_clients
        /\ \A c \in DOMAIN user_clients :
             /\ user_clients'[c].froms = user_clients[c].froms
             /\ user_clients'[c].tokens = user_clients[c].tokens
             /\ user_clients'[c].banned = user_clients[c].banned ]_vars

\* A tick has reset an active client that lists a sender, while a token is
\* active with progress and the ban store holds a sender.
C13_Witness ==
  /\ last.op = "tick"
  /\ last.reset
  /\ \E c \in DOMAIN user_clients :
       /\ user_clients[c].froms # <<>>
       /\ user_clients[c].ban_progress = DefaultBanProgress
  /\ \E t \in DOMAIN user_tokens : user_tokens[t].ban_progress.max_gas >= 1
  /\ DOMAIN ban_list.froms # {}

\* Every entry of an active table is at least as large as anything seen of its
\* identity at an earlier point.
NotBelowSeen(seen, active) ==
  \A k \in DOMAIN active \cap DOMAIN seen :
    /\ active[k].ban_progress.incorrect_nonce >= seen[k].incorrect_nonce
    /\ active[k].ban_progress.max_gas >= seen[k].max_gas
    /\ Len(active[k].ban_progress.revert) >= seen[k].revert

\* C14: the progress of a sender and of a token never decreases: at any point
\* where the identity has an active entry, each counter and the length of the
\* revert list are at least what they were at every earlier point where it had
\* an active entry, also when the identity was banned in between.
C14_SenderTokenProgressMonotone ==
  /\ NotBelowSeen(hist.froms, user_froms)
  /\ NotBelowSeen(hist.tokens, user_tokens)

\* The progress an evaluated axis has after an event, as the policy table gives it.
Bumped(progress, error) ==
  CASE error.kind = "ErrIncorrectNonce" -> [progress EXCEPT !.incorrect_nonce = @ + 1]
    [] error.kind = "MaxGas" -> [progress EXCEPT !.max_gas = @ + 1]
    [] error.kind = "Revert" -> [progress EXCEPT !.revert = Append(@, error.msg)]
    [] OTHER -> progress

\* One axis of an event, judged on its own: an identity of the ban store is
\* skipped; any other identity has its progress updated, is reported banned
\* exactly when the updated counter has reached the threshold, and is moved to
\* the ban store exactly then.
AxisOnItsOwn(active, banned_map, active2, banned_map2, key, flag, input) ==
  IF key \in DOMAIN banned_map
  THEN ~flag /\ banned_map2[key] = banned_map[key]
  ELSE LET post == Bumped(PreProgress(active, key), input.error)
       IN /\ flag <=> (Bannable(input.error)
                        /\ RelevantCounter(post, input.error) >= EffectiveThreshold(config, input))
          /\ IF flag
             THEN /\ key \in DOMAIN banned_map2 /\ key \notin DOMAIN active2
                  /\ banned_map2[key].ban_progress = post
             ELSE /\ key \in DOMAIN active2 /\ key \notin DOMAIN banned_map2
                  /\ active2[key].ban_progress = post

\* C15: the three axes of one event are evaluated independently: whichever of
\* the other axes are skipped because their identity is in the ban store, an
\* axis that is not skipped has its progress updated and is banned when it
\* reaches its threshold.
C15_AxesIndependent ==
  [][ ReadInputStep =>
        /\ AxisOnItsOwn(user_clients, ban_list.clients, user_clients', ban_list'.clients,
                        last'.input.client, last'.is_banned[1], last'.input)
        /\ AxisOnItsOwn(user_froms, ban_list.froms, user_froms', ban_list'.froms,
                        last'.input.from, last'.is_banned[2], last'.input)
        /\ IF last'.input.token = NoToken
           THEN ~last'.is_banned[3] /\ user_tokens' = user_tokens /\ ban_list'.tokens = ban_list.tokens
           ELSE AxisOnItsOwn(user_tokens, ban_list.tokens, user_tokens', ban_list'.tokens,
                             last'.input.token, last'.is_banned[3], last'.input) ]_vars

\* The number of axes the last event banned.
BannedAxes == Cardinality({i \in 1..3 : last.is_banned[i]})

\* Exactly one axis banned: an event banned its token although its client and
\* its sender were skipped, both being in the ban store already.
C15_Witness ==
  /\ last.op = "read_input"
  /\ last.is_banned = <<FALSE, FALSE, TRUE>>
  /\ last.input.client \in DOMAIN ban_list.clients
  /\ last.input.from \in DOMAIN ban_list.froms
  /\ last.input.token \in DOMAIN ban_list.tokens

\* The other outcomes of one event: no axis banned by an event with a violation,
\* exactly two axes banned, all three axes banned.
C15_NoAxisBanned == last.op = "read_input" /\ Bannable(last.input.error) /\ BannedAxes = 0
C15_TwoAxesBanned == last.op = "read_input" /\ BannedAxes = 2
C15_ThreeAxesBanned == last.op = "read_input" /\ BannedAxes = 3

\* C16: no `expect` fails in any sequence of read_input and tick calls from
\* Banhammer::new: the active entry of every evaluated axis exists, and an event
\* that reports an axis banned carries a violation signal, finds the active
\* entry to remove and, for the token axis, carries a token.
C16_NoFault ==
  /\ ~panicked
  /\ last.op = "read_input" =>
       /\ (last.is_banned[1] \/ last.is_banned[2] \/ last.is_banned[3]) => Bannable(last.input.error)
       /\ last.is_banned[1] => last.input.client \in DOMAIN ban_list.clients
       /\ last.is_banned[2] => last.input.from \in DOMAIN ban_list.froms
       /\ last.is_banned[3] => (last.input.token # NoToken /\ last.input.token \in DOMAIN ban_list.tokens)

\* An event has banned its client, its sender and its token, so every `expect`
\* of read_input and ban_progression has been passed.
C16_Witness ==
  /\ ~panicked
  /\ last.op = "read_input"
  /\ last.is_banned = <<TRUE, TRUE, TRUE>>
  /\ last.input.token \in DOMAIN ban_list.tokens

Min(a, b) == IF a <= b THEN a ELSE b

\* The deadline is one timeframe after as many timeframes as resets were
\* performed, and when the first tick call came later than k timeframes, each
\* of the first k tick calls has performed a reset.
DeadlineCountsResets ==
  /\ next_check = (1 + hist.resets) * config.timeframe
  /\ hist.resets <= hist.ticks
  /\ \A k \in 1..MaxTime :
       (hist.ticks >= 1 /\ hist.first > k * config.timeframe) => hist.resets >= Min(hist.ticks, k)

\* C17: the next-check deadline always equals (1 + number of resets performed so
\* far) x timeframe and a tick call advances it by at most one timeframe; so when
\* the first tick call is made after more than k timeframes (k >= 1), the k tick
\* calls from that one on each perform a reset, also when no time passes
\* between them.
C17_DeadlineNeverCatchesUp ==
  /\ []DeadlineCountsResets
  /\ [][ /\ next_check' \in {next_check, next_check + config.timeframe}
         /\ next_check' # next_check => (TickStep /\ last'.reset) ]_vars

\* The first tick call came after more than two timeframes; it and the tick call
\* after it, made at the same elapsed time, have both reset, and an active client
\* is without progress.
C17_Witness ==
  /\ hist.ticks = 2
  /\ hist.resets = 2
  /\ hist.first > 2 * config.timeframe
  /\ elapsed = hist.first
  /\ next_check = 3 * config.timeframe
  /\ \E c \in DOMAIN user_clients : user_clients[c].ban_progress = DefaultBanProgress

\* Every entry of an active table has counters below the base thresholds times
\* the token multiplier.
BelowBound(active) ==
  \A k \in DOMAIN active :
    /\ active[k].ban_progress.incorrect_nonce < config.incorrect_nonce_threshold * config.token_multiplier
    /\ active[k].ban_progress.max_gas < config.max_gas_threshold * config.token_multiplier

\* C18: when the base thresholds and the token multiplier are all at least 1,
\* every entry of the active registry, on every axis, has an incorrect-nonce
\* counter below incorrect_nonce_threshold x token_multiplier and a max-gas
\* counter below max_gas_threshold x token_multiplier.
C18_ActiveCountersBelowBound ==
  (/\ config.incorrect_nonce_threshold >= 1
   /\ config.max_gas_threshold >= 1
   /\ config.revert_threshold >= 1
   /\ config.token_multiplier >= 1)
  => /\ BelowBound(user_clients)
     /\ BelowBound(user_froms)
     /\ BelowBound(user_tokens)

\* With a token multiplier above 1, a sender that events with a token have
\* brought past the base threshold is still active, one violation short of the
\* bound.
C18_Witness ==
  /\ config.token_multiplier > 1
  /\ config.revert_threshold >= 1
  /\ \E f \in DOMAIN user_froms :
       /\ f \notin DOMAIN ban_list.froms
       /\ user_froms[f].ban_progress.max_gas = config.max_gas_threshold * config.token_multiplier - 1
       /\ user_froms[f].ban_progress.max_gas >= config.max_gas_threshold

\* What the records of a key list in one of their association lists, over the
\* active table and the ban-store table together.
Listed(active, banned_map, key, field) ==
  (IF key \in DOMAIN active THEN Elems(active[key][field]) ELSE {})
    \cup (IF key \in DOMAIN banned_map THEN Elems(banned_map[key][field]) ELSE {})

\* Whenever a record of x on the first axis lists y, a record of y on the second
\* axis lists x.
ListedBack(active, banned_map, field, active2, banned_map2, field2) ==
  \A x \in DOMAIN active \cup DOMAIN banned_map :
    \A y \in Listed(active, banned_map, x, field) :
      x \in Listed(active2, banned_map2, y, field2)

\* C19: associations are symmetric over the active registry and the ban store
\* together: when a record of a client lists a sender or a token, a record of
\* that sender or token lists the client, and the same holds from senders and
\* tokens to clients and between senders and tokens.
C19_AssociationsSymmetric ==
  /\ ListedBack(user_clients, ban_list.clients, "froms", user_froms, ban_list.froms, "clients")
  /\ ListedBack(user_froms, ban_list.froms, "clients", user_clients, ban_list.clients, "froms")
  /\ ListedBack(user_clients, ban_list.clients, "tokens", user_tokens, ban_list.tokens, "clients")
  /\ ListedBack(user_tokens, ban_list.tokens, "clients", user_clients, ban_list.clients, "tokens")
  /\ ListedBack(user_froms, ban_list.froms, "tokens", user_tokens, ban_list.tokens, "froms")
  /\ ListedBack(user_tokens, ban_list.tokens, "froms", user_froms, ban_list.froms, "tokens")

\* A client has a record in the ban store and a newer active record that lists a
\* sender the banned record does not list; that sender lists the client.
C19_Witness ==
  \E c \in DOMAIN user_clients \cap DOMAIN ban_list.clients :
    \E s \in Elems(user_clients[c].froms) \ Elems(ban_list.clients[c].froms) :
      /\ Elems(ban_list.clients[c].froms) # {}
      /\ c \in Listed(user_froms, ban_list.froms, s, "clients")

====
